---- MODULE Spec2Model ----
(***************************************************************************)
(* Model of pyspark_etl/gtd_cleaning.py: a single linear cleaning pass     *)
(* over an in-memory table.  A raw CSV cell is a sequence of one-character *)
(* strings; a table cell is NA, a number or a text value.                  *)
(***************************************************************************)
EXTENDS Integers, Sequences, FiniteSets, TLC

(***************************************************************************)
(* Bounds of the input families                                            *)
(***************************************************************************)
MaxGeoRows == 2
MaxTextRows == 3
MaxAlignRows == 2
MaxNumRows == 2
MaxSparseRows == 5
WideRows == 20

(***************************************************************************)
(* Cell values                                                             *)
(***************************************************************************)
NA == [t |-> "na", n |-> 0, s |-> <<>>]
Num(n) == [t |-> "num", n |-> n, s |-> <<>>]
Str(s) == [t |-> "str", n |-> 0, s |-> s]
IsNull(v) == v.t = "na"

Range(f) == {f[i] : i \in DOMAIN f}

(***************************************************************************)
(* Text functions: str.lower, str.strip, numeric parsing                   *)
(***************************************************************************)
UpperChars == <<"A","B","C","D","E","F","G","H","I","J","K","L","M",
                "N","O","P","Q","R","S","T","U","V","W","X","Y","Z">>
LowerChars == <<"a","b","c","d","e","f","g","h","i","j","k","l","m",
                "n","o","p","q","r","s","t","u","v","w","x","y","z">>
DigitChars == <<"0","1","2","3","4","5","6","7","8","9">>

LowerChar(c) ==
    IF \E i \in DOMAIN UpperChars : UpperChars[i] = c
    THEN LowerChars[CHOOSE i \in DOMAIN UpperChars : UpperChars[i] = c]
    ELSE c

\* str.lower()
StrLower(s) == [i \in DOMAIN s |-> LowerChar(s[i])]

IsSpace(c) == c = " "

\* str.strip(): remove the leading and the trailing whitespace
StrStrip(s) ==
    LET keep == {i \in DOMAIN s : ~IsSpace(s[i])}
    IN  IF keep = {} THEN <<>>
        ELSE LET lo == CHOOSE i \in keep : \A j \in keep : i <= j
                 hi == CHOOSE i \in keep : \A j \in keep : j <= i
             IN  SubSeq(s, lo, hi)

IsDigit(c) == \E i \in DOMAIN DigitChars : DigitChars[i] = c
DigitVal(c) == (CHOOSE i \in DOMAIN DigitChars : DigitChars[i] = c) - 1

\* a cell text that parses as a number: digits with at most one decimal point
IsNumericText(s) ==
    /\ \A i \in DOMAIN s : IsDigit(s[i]) \/ s[i] = "."
    /\ Cardinality({i \in DOMAIN s : s[i] = "."}) <= 1
    /\ \E i \in DOMAIN s : IsDigit(s[i])

RECURSIVE DigitsVal(_)
DigitsVal(s) ==
    IF s = <<>> THEN 0
    ELSE 10 * DigitsVal(SubSeq(s, 1, Len(s) - 1)) + DigitVal(s[Len(s)])

\* the parsed number in tenths (the model's texts carry at most one
\* fractional digit)
NumValue(s) ==
    LET dots == {i \in DOMAIN s : s[i] = "."}
        d == IF dots = {} THEN Len(s) + 1 ELSE CHOOSE i \in dots : TRUE
        ip == SubSeq(s, 1, d - 1)
        fp == SubSeq(s, d + 1, Len(s))
    IN  10 * DigitsVal(ip) + (IF fp = <<>> THEN 0 ELSE DigitVal(fp[1]))

\* pd.to_numeric(..., errors='coerce') on one value
ToNumericIgnore(v) ==
    IF v.t = "str" /\ IsNumericText(v.s) THEN Num(NumValue(v.s)) ELSE v

ToNumeric(v) ==
    IF v.t = "str"
    THEN IF IsNumericText(v.s) THEN Num(NumValue(v.s)) ELSE NA
    ELSE v


(***************************************************************************)
(* Program constants (the inline literals of the script)                   *)
(***************************************************************************)
\* line 14
placeholder_vals_no_empty ==
    { <<"u","n","k","n","o","w","n">>, <<"n","o","t"," ","a","p","p","l","i","c","a","b","l","e">>, <<"u","n","k">>, <<"n","o","n","e">>, <<"n","a","n">> }

placeholder_vals ==
    { <<"u","n","k","n","o","w","n">>, <<"n","o","t"," ","a","p","p","l","i","c","a","b","l","e">>, <<"u","n","k">>, <<"n","o","n","e">>, <<"n","a","n">>, <<>> }

\* line 19
na_literals == { <<"<","n","a",">">>, <<"n","a","n">> }

\* lines 22-23
binary_cols ==
    <<"claimed", "ishostkid", "INT_ANY", "INT_MISC", "INT_IDEO", "INT_LOG",
      "property", "doubtterr", "vicinity">>

\* lines 33-34
fill_cols == <<"city", "provstate">>

\* lines 43-51
alignment_pairs ==
    << <<"country", "country_txt">>, <<"region", "region_txt">>,
       <<"attacktype1", "attacktype1_txt">>, <<"targtype1", "targtype1_txt">>,
       <<"targsubtype1", "targsubtype1_txt">>, <<"weaptype1", "weaptype1_txt">>,
       <<"weapsubtype1", "weapsubtype1_txt">> >>

\* lines 57-61
expected_numeric_cols ==
    <<"iyear", "imonth", "iday", "nkill", "nkillus", "nkillter",
      "nwound", "nwoundus", "nwoundte", "propvalue", "nperps",
      "nperpcap", "ransomamt", "ransomamtus", "ransompaid", "ransompaidus">>

\* lines 81-91
rename_map ==
    [iyear |-> "year", imonth |-> "month", iday |-> "day",
     nkill |-> "num_killed", nwound |-> "num_wounded",
     nkillus |-> "num_us_killed", nwoundus |-> "num_us_wounded",
     nkillter |-> "num_terrorists_killed",
     nwoundte |-> "num_terrorists_wounded"]

\* lines 95-104
drop_list_keep_resolution ==
    {"summary", "motive", "addnotes", "propcomment", "weapdetail",
     "target1", "target2", "target3", "corp1", "corp2", "corp3",
     "claimmode_txt", "claimmode2", "claimmode3",
     "scite1", "scite2", "scite3", "approxdate", "ransomnote",
     "gsubname", "gsubname2", "gsubname3", "related", "location",
     "vicinity", "specificity",
     "dbsource", "INT_LOG", "INT_IDEO", "INT_MISC", "INT_ANY",
     "attacktype2", "attacktype2_txt", "attacktype3", "attacktype3_txt"}

drop_list ==
    {"summary", "motive", "addnotes", "propcomment", "weapdetail",
     "target1", "target2", "target3", "corp1", "corp2", "corp3",
     "claimmode_txt", "claimmode2", "claimmode3",
     "scite1", "scite2", "scite3", "approxdate", "resolution", "ransomnote",
     "gsubname", "gsubname2", "gsubname3", "related", "location",
     "vicinity", "specificity",
     "dbsource", "INT_LOG", "INT_IDEO", "INT_MISC", "INT_ANY",
     "attacktype2", "attacktype2_txt", "attacktype3", "attacktype3_txt"}

\* line 72: head(10)
PreviewLimit == 10

\* pandas' default NA strings of read_csv that the model's alphabet can spell
NaValues ==
    { <<>>, <<"n","/","a">>, <<"N","/","A">>, <<"N","A">>, <<"n","a","n">>, <<"N","a","N">>, <<"N","o","n","e">>, <<"n","u","l","l">>, <<"N","U","L","L">>, <<"<","N","A",">">> }


(***************************************************************************)
(* The table: df is a sequence of rows [idx |-> index label, c |-> cells], *)
(* cols is df.columns.                                                     *)
(***************************************************************************)
\* the index of the first name of colseq that is no column, 0 if all are
FirstAbsent(colseq, columns) ==
    LET absent == {i \in DOMAIN colseq : colseq[i] \notin columns}
    IN  IF absent = {} THEN 0 ELSE CHOOSE i \in absent : \A j \in absent : i <= j

\* the names a loop over colseq handles before df[col] raises KeyError
Handled(colseq, columns) ==
    LET f == FirstAbsent(colseq, columns)
    IN  {colseq[i] : i \in {j \in DOMAIN colseq : f = 0 \/ j < f}}

\* pd.read_csv (line 7): a column whose cells are all numbers or NA strings
\* is numeric, any other column is of dtype object and keeps its texts
ReadCsv(file) ==
    LET numeric(c) == \A i \in DOMAIN file.rows :
                          \/ file.rows[i][c] \in NaValues
                          \/ IsNumericText(file.rows[i][c])
        value(c, x) == IF x \in NaValues THEN NA
                       ELSE IF numeric(c) THEN Num(NumValue(x)) ELSE Str(x)
    IN  [i \in DOMAIN file.rows |->
            [idx |-> i, c |-> [c \in file.cols |-> value(c, file.rows[i][c])]]]

\* df.select_dtypes(include='object').columns (line 15)
ObjectCols(rows, columns) ==
    {c \in columns : \E i \in DOMAIN rows : rows[i].c[c].t = "str"}

\* astype(str) (line 16)
AsText(v) == IF v.t = "str" THEN v.s ELSE <<"n","a","n">>

\* lines 16-17 on one value of an object column
NormalizeLStrip(v) ==
    LET low == StrLower(AsText(v))
        keep == {i \in DOMAIN low : ~IsSpace(low[i])}
        t == IF keep = {} THEN <<>>
             ELSE SubSeq(low, CHOOSE i \in keep : \A j \in keep : i <= j, Len(low))
    IN  IF t \in placeholder_vals THEN NA ELSE Str(t)

NormalizeValue(v) ==
    LET t == StrStrip(StrLower(AsText(v)))
    IN  IF t \in placeholder_vals THEN NA ELSE Str(t)

\* line 19 on one value
ReplaceNaLiterals(v) == IF v.t = "str" /\ v.s \in na_literals THEN NA ELSE v

\* lines 15-19
TextNormalized(rows, columns) ==
    LET obj == ObjectCols(rows, columns)
        F(cells) == [c \in columns |->
                        ReplaceNaLiterals(IF c \in obj THEN NormalizeValue(cells[c])
                                          ELSE cells[c])]
    IN  [i \in DOMAIN rows |-> [rows[i] EXCEPT !.c = F(rows[i].c)]]

\* df[col] = pd.to_numeric(df[col], errors='coerce') for every col of names
CoerceCols(rows, columns, names) ==
    LET F(cells) == [c \in columns |->
                        IF c \in names THEN ToNumeric(cells[c]) ELSE cells[c]]
    IN  [i \in DOMAIN rows |-> [rows[i] EXCEPT !.c = F(rows[i].c)]]

\* lines 28, 30: the rows dropna(subset=['latitude','longitude']) keeps
HasLatOnly(cells) == ~IsNull(cells["latitude"])

HasLatLon(cells) == ~IsNull(cells["latitude"]) /\ ~IsNull(cells["longitude"])

\* line 30: df.dropna(subset=['latitude', 'longitude'])
DropNaLatLon(rows) ==
    LET T(r) == HasLatLon(r.c) IN SelectSeq(rows, T)

\* line 28: len(missing_latlon)
MissingLatLon(rows) ==
    Cardinality({i \in DOMAIN rows :
        IsNull(rows[i].c["latitude"]) \/ IsNull(rows[i].c["longitude"])})

\* lines 33-34: fillna('unknown')
FillCols(rows, columns, names) ==
    LET F(cells) == [c \in columns |->
                        IF c \in names /\ IsNull(cells[c])
                        THEN Str(<<"u","n","k","n","o","w","n">>) ELSE cells[c]]
    IN  [i \in DOMAIN rows |-> [rows[i] EXCEPT !.c = F(rows[i].c)]]


(***************************************************************************)
(* check_alignment (lines 37-41)                                           *)
(***************************************************************************)
\* groupby(code_col): the group keys are the non-null code values
GroupKeys(rows, code_col) ==
    {rows[i].c[code_col] : i \in {j \in DOMAIN rows : ~IsNull(rows[j].c[code_col])}}

\* nunique() with dropna=False: a missing label counts as a value
NUniqueWithNa(rows, code_col, text_col, code) ==
    Cardinality({rows[i].c[text_col] :
        i \in {j \in DOMAIN rows : rows[j].c[code_col] = code}})

\* [text_col].nunique() of one group: its distinct non-null labels
NUnique(rows, code_col, text_col, code) ==
    Cardinality({rows[i].c[text_col] :
        i \in {j \in DOMAIN rows : /\ rows[j].c[code_col] = code
                                   /\ ~IsNull(rows[j].c[text_col])}})

\* the codes check_alignment prints: mismatches[mismatches > 1], printed only
\* if mismatches.max() > 1
check_alignment(rows, code_col, text_col) ==
    LET keys == GroupKeys(rows, code_col)
        mismatches == [k \in keys |-> NUnique(rows, code_col, text_col, k)]
    IN  IF \E k \in keys : mismatches[k] > 1
        THEN {k \in keys : mismatches[k] > 1}
        ELSE {}

\* lines 52-54: the pairs whose two columns are present
CheckedPairs(columns) ==
    {p \in DOMAIN alignment_pairs : /\ alignment_pairs[p][1] \in columns
                                     /\ alignment_pairs[p][2] \in columns}

\* lines 52-54: the printed warnings of all checked pairs
AlignmentReport(rows, columns) ==
    UNION {{[code_col |-> alignment_pairs[p][1],
             text_col |-> alignment_pairs[p][2], code |-> k] :
                k \in check_alignment(rows, alignment_pairs[p][1], alignment_pairs[p][2])} :
           p \in CheckedPairs(columns)}

(***************************************************************************)
(* Numeric integrity check and quarantine (lines 66-78)                    *)
(***************************************************************************)
\* line 68 without the notna() conjunct
InvalidMaskNoNotna(v) == IsNull(ToNumeric(v))

\* line 68: pd.to_numeric(...).isna() & df[col].notna()
InvalidMask(v) == IsNull(ToNumeric(v)) /\ ~IsNull(v)

\* the offending rows, one per distinct value of the column
BadRowsDedup(rows, col) ==
    LET bad == {i \in DOMAIN rows : InvalidMask(rows[i].c[col])}
        first == {i \in bad : \A j \in bad : rows[j].c[col] = rows[i].c[col] => i <= j}
        T(r) == \E i \in first : rows[i] = r
    IN  SelectSeq(rows, T)

\* line 69: bad_rows = df[invalid_mask]
BadRows(rows, col) ==
    LET T(r) == InvalidMask(r.c[col]) IN SelectSeq(rows, T)

RECURSIVE Distinct(_)
\* drop_duplicates(): the first occurrence of every value, in order
Distinct(seq) ==
    IF seq = <<>> THEN <<>>
    ELSE LET init == Distinct(SubSeq(seq, 1, Len(seq) - 1))
             last == seq[Len(seq)]
         IN  IF last \in Range(init) THEN init ELSE Append(init, last)

\* line 72: bad_rows[[col]].drop_duplicates().head(10)
Preview(bad, col) ==
    LET d == Distinct([i \in DOMAIN bad |-> bad[i].c[col]])
    IN  SubSeq(d, 1, IF Len(d) < PreviewLimit THEN Len(d) ELSE PreviewLimit)

\* to_csv(export_path, index=False): the rows without the index
CsvRows(rows) == [i \in DOMAIN rows |-> rows[i].c]

\* a coercion that also removes the offending rows from the table
CoerceColumnDropBad(rows, columns, col) ==
    LET T(r) == ~InvalidMask(r.c[col])
    IN  CoerceCols(SelectSeq(rows, T), columns, {col})

\* line 78: df[col] = pd.to_numeric(df[col], errors='coerce')
CoerceColumn(rows, columns, col) == CoerceCols(rows, columns, {col})

RECURSIVE NumericCheck(_, _, _)
\* lines 66-78: the loop over expected_numeric_cols[1..k]; the result is the
\* table, the quarantine files written and the previews printed
NumericCheck(rows, columns, k) ==
    IF k = 0 THEN [rows |-> rows, files |-> << >>, printed |-> << >>]
    ELSE LET prev == NumericCheck(rows, columns, k - 1)
             col == expected_numeric_cols[k]
         IN  IF col \notin columns THEN prev
             ELSE LET bad == BadRows(prev.rows, col)
                  IN  [rows |-> CoerceColumn(prev.rows, columns, col),
                       files |-> IF bad = <<>> THEN prev.files
                                 ELSE (col :> CsvRows(bad)) @@ prev.files,
                       printed |-> IF bad = <<>> THEN prev.printed
                                   ELSE (col :> Preview(bad, col)) @@ prev.printed]

(***************************************************************************)
(* Rename and the two column drops (lines 80-109)                          *)
(***************************************************************************)
\* line 92: df.rename(columns=rename_map)
RenameCol(c) == IF c \in DOMAIN rename_map THEN rename_map[c] ELSE c

Renamed(rows, columns) ==
    LET new == {RenameCol(c) : c \in columns}
        F(cells) == [d \in new |-> cells[CHOOSE c \in columns : RenameCol(c) = d]]
    IN  [i \in DOMAIN rows |-> [rows[i] EXCEPT !.c = F(rows[i].c)]]

\* restriction of the rows to the columns kept
KeepCols(rows, kept) ==
    LET F(cells) == [c \in kept |-> cells[c]]
    IN  [i \in DOMAIN rows |-> [rows[i] EXCEPT !.c = F(rows[i].c)]]

\* df.isnull().sum() of one column
NullCount(rows, c) == Cardinality({i \in DOMAIN rows : IsNull(rows[i].c[c])})

\* a threshold test that keeps the boundary value
IsSparseStrict(k, n) == n > 0 /\ 10 * k > 8 * n

\* line 107: isnull().mean() >= 0.8; the mean of an empty column is NaN and
\* NaN >= 0.8 is False
IsSparse(k, n) == n > 0 /\ 10 * k >= 8 * n

\* line 107: sparse_cols
SparseCols(rows, columns) ==
    {c \in columns : IsSparse(NullCount(rows, c), Len(rows))}


(***************************************************************************)
(* Input files                                                             *)
(***************************************************************************)
InputCols ==
    {"latitude", "longitude", "city", "provstate", "country", "country_txt",
     "nkill", "nperps", "resolution", "gname"} \cup Range(binary_cols)

LatCells == { <<>>, <<"3","3",".","5">>, <<" ">> }
LonCells == { <<>>, <<"3","3",".","5">> }
TextCells == { <<>>, <<"U","n","k","n","o","w","n">>, <<"N","/","a">>, <<" ","P","a","r","i","s"," ">>, <<"<","N","a",">">>, <<"U","N","K"," ">>, <<"n","/","a">> }
CodeCells == { <<>>, <<"1">>, <<"2">> }
LabelCells == { <<>>, <<"a">>, <<"A">>, <<"b">> }
KillCells == { <<>>, <<"5">>, <<"u","n","k","n","o","w","n">>, <<"a","b","c">> }
PerpCells == { <<"7">>, <<"x">> }

DefaultRow ==
    [c \in InputCols |->
        CASE c \in {"latitude", "longitude"} -> <<"3","3",".","5">>
          [] c = "city" -> <<"P","a","r","i","s">>
          [] c = "country_txt" -> <<"a">>
          [] c = "nkill" -> <<"5">>
          [] c = "nperps" -> <<"7">>
          [] c \in {"provstate", "gname", "resolution"} -> <<"x">>
          [] OTHER -> <<"1">>]

Tables(rowset, maxn) ==
    {[cols |-> InputCols, rows |-> r] : r \in UNION {[1..n -> rowset] : n \in 0..maxn}}

GeoFiles ==
    Tables({[DefaultRow EXCEPT !["latitude"] = a, !["longitude"] = b] :
                a \in LatCells, b \in LonCells}, MaxGeoRows)

TextFiles ==
    Tables({[DefaultRow EXCEPT !["city"] = a] : a \in TextCells}, MaxTextRows)

AlignFiles ==
    Tables({[DefaultRow EXCEPT !["country"] = a, !["country_txt"] = b] :
                a \in CodeCells, b \in LabelCells}, MaxAlignRows)

NumFiles ==
    Tables({[DefaultRow EXCEPT !["nkill"] = a, !["nperps"] = b, !["latitude"] = l] :
                a \in KillCells, b \in PerpCells, l \in LonCells}, MaxNumRows)

\* one default row, one column of the file absent
ColumnFiles ==
    {[cols |-> InputCols \ {x},
      rows |-> << [c \in InputCols \ {x} |-> DefaultRow[c]] >>] : x \in InputCols}

\* n rows; resolution is empty in the first k1 rows, gname in the last k2,
\* latitude in the first k3
SparseFile(n, k1, k2, k3) ==
    [cols |-> InputCols,
     rows |-> [i \in 1..n |->
                 [DefaultRow EXCEPT
                     !["resolution"] = IF i <= k1 THEN <<>> ELSE <<"x">>,
                     !["gname"] = IF i > n - k2 THEN <<>> ELSE <<"x">>,
                     !["latitude"] = IF i <= k3 THEN <<>> ELSE <<"3","3",".","5">>]]]

SparseFiles ==
    UNION {{SparseFile(n, k1, k2, k3) :
                k1 \in 0..n, k2 \in 0..n, k3 \in {0, 1, n} \cap 0..n} :
           n \in 0..MaxSparseRows}

\* WideRows rows; resolution and gname are empty in k rows each
WideFiles ==
    {SparseFile(WideRows, k, k, k3) : k \in 0..WideRows, k3 \in {0, 1}}

InputFiles ==
    GeoFiles \cup TextFiles \cup AlignFiles \cup NumFiles \cup ColumnFiles
        \cup SparseFiles \cup WideFiles

(***************************************************************************)
(* The script as a state machine: one action per step                      *)
(***************************************************************************)
VARIABLES pc, file, cols, df, initial_rows, missing_latlon, mismatch_report,
          quarantine, printed_bad, sparse_cols, final_rows, total_dropped,
          output, err

vars == <<pc, file, cols, df, initial_rows, missing_latlon, mismatch_report,
          quarantine, printed_bad, sparse_cols, final_rows, total_dropped,
          output, err>>

NoOutput == [written |-> FALSE, cols |-> {}, rows |-> << >>]

Init ==
    /\ file \in InputFiles
    /\ pc = "load"
    /\ cols = {}
    /\ df = << >>
    /\ initial_rows = 0
    /\ missing_latlon = 0
    /\ mismatch_report = {}
    /\ quarantine = << >>
    /\ printed_bad = << >>
    /\ sparse_cols = {}
    /\ final_rows = 0
    /\ total_dropped = 0
    /\ output = NoOutput
    /\ err = ""

\* lines 5-11
Load ==
    /\ pc = "load"
    /\ df' = ReadCsv(file)
    /\ cols' = file.cols
    /\ initial_rows' = Len(file.rows)
    /\ pc' = "normalize"
    /\ UNCHANGED <<file, missing_latlon, mismatch_report, quarantine, printed_bad,
                   sparse_cols, final_rows, total_dropped, output, err>>

\* lines 13-19
TextNormalization ==
    /\ pc = "normalize"
    /\ df' = TextNormalized(df, cols)
    /\ pc' = "binary"
    /\ UNCHANGED <<file, cols, initial_rows, missing_latlon, mismatch_report,
                   quarantine, printed_bad, sparse_cols, final_rows, total_dropped,
                   output, err>>

\* lines 21-25: df[col] raises KeyError at the first absent column
BinaryCoercion ==
    /\ pc = "binary"
    /\ df' = CoerceCols(df, cols, Handled(binary_cols, cols))
    /\ IF FirstAbsent(binary_cols, cols) = 0
       THEN pc' = "geo" /\ err' = err
       ELSE pc' = "aborted" /\ err' = "KeyError"
    /\ UNCHANGED <<file, cols, initial_rows, missing_latlon, mismatch_report,
                   quarantine, printed_bad, sparse_cols, final_rows, total_dropped,
                   output>>

\* lines 27-30
GeolocationFilter ==
    /\ pc = "geo"
    /\ IF {"latitude", "longitude"} \subseteq cols
       THEN /\ missing_latlon' = MissingLatLon(df)
            /\ df' = DropNaLatLon(df)
            /\ pc' = "fill"
            /\ err' = err
       ELSE /\ pc' = "aborted"
            /\ err' = "KeyError"
            /\ UNCHANGED <<missing_latlon, df>>
    /\ UNCHANGED <<file, cols, initial_rows, mismatch_report, quarantine,
                   printed_bad, sparse_cols, final_rows, total_dropped, output>>

\* lines 32-34: df['city'], df['provstate'] raise KeyError when absent
DefaultFill ==
    /\ pc = "fill"
    /\ df' = FillCols(df, cols, Handled(fill_cols, cols))
    /\ IF FirstAbsent(fill_cols, cols) = 0
       THEN pc' = "align" /\ err' = err
       ELSE pc' = "aborted" /\ err' = "KeyError"
    /\ UNCHANGED <<file, cols, initial_rows, missing_latlon, mismatch_report,
                   quarantine, printed_bad, sparse_cols, final_rows, total_dropped,
                   output>>

\* lines 36-54: prints only
AlignmentCheck ==
    /\ pc = "align"
    /\ mismatch_report' = AlignmentReport(df, cols)
    /\ pc' = "numeric"
    /\ UNCHANGED <<file, cols, df, initial_rows, missing_latlon, quarantine,
                   printed_bad, sparse_cols, final_rows, total_dropped, output, err>>

\* lines 56-78
NumericIntegrity ==
    /\ pc = "numeric"
    /\ LET r == NumericCheck(df, cols, Len(expected_numeric_cols))
       IN  /\ df' = r.rows
           /\ quarantine' = r.files
           /\ printed_bad' = r.printed
    /\ pc' = "rename"
    /\ UNCHANGED <<file, cols, initial_rows, missing_latlon, mismatch_report,
                   sparse_cols, final_rows, total_dropped, output, err>>

\* lines 80-92
RenameColumns ==
    /\ pc = "rename"
    /\ cols' = {RenameCol(c) : c \in cols}
    /\ df' = Renamed(df, cols)
    /\ pc' = "drop"
    /\ UNCHANGED <<file, initial_rows, missing_latlon, mismatch_report, quarantine,
                   printed_bad, sparse_cols, final_rows, total_dropped, output, err>>

\* lines 94-104: errors='ignore'
DropExplicit ==
    /\ pc = "drop"
    /\ cols' = cols \ drop_list
    /\ df' = KeepCols(df, cols \ drop_list)
    /\ pc' = "sparse"
    /\ UNCHANGED <<file, initial_rows, missing_latlon, mismatch_report, quarantine,
                   printed_bad, sparse_cols, final_rows, total_dropped, output, err>>

\* lines 106-109
DropSparse ==
    /\ pc = "sparse"
    /\ sparse_cols' = SparseCols(df, cols)
    /\ cols' = cols \ SparseCols(df, cols)
    /\ df' = KeepCols(df, cols \ SparseCols(df, cols))
    /\ pc' = "report"
    /\ UNCHANGED <<file, initial_rows, missing_latlon, mismatch_report, quarantine,
                   printed_bad, final_rows, total_dropped, output, err>>

\* lines 111-114
Report ==
    /\ pc = "report"
    /\ final_rows' = Len(df)
    /\ total_dropped' = initial_rows - Len(df)
    /\ pc' = "export"
    /\ UNCHANGED <<file, cols, df, initial_rows, missing_latlon, mismatch_report,
                   quarantine, printed_bad, sparse_cols, output, err>>

\* lines 116-119: to_csv(output_path, index=False)
Export ==
    /\ pc = "export"
    /\ output' = [written |-> TRUE, cols |-> cols, rows |-> CsvRows(df)]
    /\ pc' = "done"
    /\ UNCHANGED <<file, cols, df, initial_rows, missing_latlon, mismatch_report,
                   quarantine, printed_bad, sparse_cols, final_rows, total_dropped,
                   err>>

Next ==
    \/ Load
    \/ TextNormalization
    \/ BinaryCoercion
    \/ GeolocationFilter
    \/ DefaultFill
    \/ AlignmentCheck
    \/ NumericIntegrity
    \/ RenameColumns
    \/ DropExplicit
    \/ DropSparse
    \/ Report
    \/ Export

Spec == Init /\ [][Next]_vars


(***************************************************************************)
(* Properties                                                              *)
(***************************************************************************)
PostGeoPcs ==
    {"fill", "align", "numeric", "rename", "drop", "sparse", "report", "export", "done"}
PostNumericPcs == {"rename", "drop", "sparse", "report", "export", "done"}
PostSparsePcs == {"report", "export", "done"}

Index(rows) == [i \in DOMAIN rows |-> rows[i].idx]

\* the raw cell of input row i in column c is empty
RawEmpty(i, c) == c \in file.cols /\ file.rows[i][c] = <<>>

\* the raw cell of input row i in column c is the text x
RawIs(i, c, x) == c \in file.cols /\ file.rows[i][c] = x

\* C1: every row of the exported table has a non-missing latitude and
\* longitude, and every input row with an empty latitude or longitude is
\* dropped by the geolocation filter and counted in its report.
C1_GeoPostcondition ==
    /\ output.written =>
          /\ {"latitude", "longitude"} \subseteq output.cols
          /\ \A i \in DOMAIN output.rows :
                /\ ~IsNull(output.rows[i]["latitude"])
                /\ ~IsNull(output.rows[i]["longitude"])
    /\ pc \in PostGeoPcs =>
          /\ \A i \in DOMAIN file.rows :
                RawEmpty(i, "latitude") \/ RawEmpty(i, "longitude")
                    => i \notin Range(Index(df))
          /\ missing_latlon =
                Cardinality((1..Len(file.rows)) \ Range(Index(df)))

C1_Witness ==
    /\ pc = "done"
    /\ \E i \in DOMAIN file.rows :
          /\ RawEmpty(i, "latitude")
          /\ RawIs(i, "longitude", <<"3","3",".","5">>)
          /\ i \notin Range(Index(df))
    /\ missing_latlon >= 1
    /\ Len(output.rows) >= 1

\* C2: the final row count is the initial row count minus the reported
\* number of rows missing latitude or longitude, the printed total of
\* dropped rows equals that report, and no step other than the load and the
\* geolocation filter changes the rows of the table.
C2_RowCount ==
    /\ [](/\ pc \in {"normalize", "binary", "geo"} => Len(df) = initial_rows
          /\ pc \in PostGeoPcs => Len(df) = initial_rows - missing_latlon
          /\ pc \in {"export", "done"} =>
                /\ final_rows = initial_rows - missing_latlon
                /\ total_dropped = missing_latlon
          /\ output.written => Len(output.rows) = final_rows)
    /\ [][pc \notin {"load", "geo"} => Index(df') = Index(df)]_vars

C2_Witness ==
    /\ pc = "done"
    /\ missing_latlon >= 1
    /\ final_rows >= 1
    /\ DOMAIN quarantine # {}

\* C3: after the numeric check every value of a numeric-check column, under
\* its original or its renamed name, is numeric or missing, in the table and
\* in the exported file, and the run is aborted only by an absent column,
\* never by a value.
C3_NumericOrMissing ==
    /\ pc \in PostNumericPcs =>
          \A k \in DOMAIN expected_numeric_cols :
              \A c \in {expected_numeric_cols[k], RenameCol(expected_numeric_cols[k])} \cap cols :
                  \A i \in DOMAIN df : df[i].c[c].t \in {"num", "na"}
    /\ output.written =>
          \A k \in DOMAIN expected_numeric_cols :
              \A c \in {expected_numeric_cols[k], RenameCol(expected_numeric_cols[k])}
                           \cap output.cols :
                  \A i \in DOMAIN output.rows : output.rows[i][c].t \in {"num", "na"}
    /\ pc = "aborted" =>
          ~((Range(binary_cols) \cup Range(fill_cols) \cup {"latitude", "longitude"})
                \subseteq file.cols)

C3_Witness ==
    /\ pc = "done"
    /\ "num_killed" \in output.cols
    /\ \E i \in DOMAIN df :
          /\ RawIs(df[i].idx, "nkill", <<"a","b","c">>)
          /\ output.rows[i]["num_killed"] = NA
    /\ \E i \in DOMAIN output.rows : output.rows[i]["num_killed"].t = "num"


\* the number of missing values of column c in the exported table
OutputNulls(c) == Cardinality({i \in DOMAIN output.rows : IsNull(output.rows[i][c])})

\* C4: no column of a non-empty exported table has 80% or more missing
\* values (the boundary included), and the sparsity step drops nothing from
\* a table the geolocation filter has emptied, where the fraction is
\* undefined.
C4_NoSparseColumn ==
    /\ output.written =>
          \A c \in output.cols :
              Len(output.rows) > 0 => 10 * OutputNulls(c) < 8 * Len(output.rows)
    /\ pc \in PostSparsePcs /\ Len(df) = 0 => sparse_cols = {}

C4_Witness ==
    /\ pc = "done"
    /\ Len(output.rows) = 5
    /\ Cardinality({i \in DOMAIN df : RawEmpty(df[i].idx, "gname")}) = 4
    /\ "gname" \in sparse_cols
    /\ "gname" \notin output.cols

\* C5 (as claimed): an input with latitude and longitude that lacks some
\* other column named by a step still runs to completion without an error.
C5_MissingColumnTolerated ==
    {"latitude", "longitude"} \subseteq file.cols => pc # "aborted" /\ err = ""

\* a text the numeric check finds present but unparseable
Unparseable(v) == v.t = "str" /\ ~IsNumericText(v.s)

Offending(rows, col) == {i \in DOMAIN rows : Unparseable(rows[i].c[col])}

\* C6 (as claimed): a row with valid coordinates whose nkill is the text
\* "unknown" is exported to the quarantine file of nkill.
C6_UnknownQuarantined ==
    pc = "done" =>
        \A i \in DOMAIN df :
            RawIs(df[i].idx, "nkill", <<"u","n","k","n","o","w","n">>)
                => /\ "nkill" \in DOMAIN quarantine
                   /\ \E j \in DOMAIN quarantine["nkill"] :
                         quarantine["nkill"][j]["nkill"] = Str(<<"u","n","k","n","o","w","n">>)

\* C6 (amended): the text "unknown" is normalized to missing before the
\* numeric check, so it is never written to a quarantine file and its
\* num_killed is missing in the output; a quarantine file is written for
\* exactly the numeric-check columns that hold, after text normalization and
\* the geolocation filter, a present but unparseable value, and it holds
\* exactly the rows carrying such a value.
C6_QuarantineExact ==
    /\ [](pc \in PostNumericPcs =>
            /\ \A col \in DOMAIN quarantine : \A j \in DOMAIN quarantine[col] :
                  quarantine[col][j][col] # Str(<<"u","n","k","n","o","w","n">>)
            /\ \A i \in DOMAIN df :
                  RawIs(df[i].idx, "nkill", <<"u","n","k","n","o","w","n">>)
                      => \A c \in {"nkill", "num_killed"} \cap cols : IsNull(df[i].c[c]))
    /\ [][pc = "numeric" =>
            /\ DOMAIN quarantine' =
                  {col \in Range(expected_numeric_cols) \cap cols : Offending(df, col) # {}}
            /\ \A col \in DOMAIN quarantine' :
                  /\ Len(quarantine'[col]) = Cardinality(Offending(df, col))
                  /\ \A j \in DOMAIN quarantine'[col] :
                        /\ Unparseable(quarantine'[col][j][col])
                        /\ \E i \in Offending(df, col) :
                              \A c \in cols \ Range(expected_numeric_cols) :
                                  quarantine'[col][j][c] = df[i].c[c]]_vars

C6_Witness ==
    /\ pc = "done"
    /\ "num_killed" \in output.cols
    /\ \E i \in DOMAIN df :
          /\ RawIs(df[i].idx, "nkill", <<"u","n","k","n","o","w","n">>)
          /\ IsNull(output.rows[i]["num_killed"])
    /\ \E i \in DOMAIN df : RawIs(df[i].idx, "nperps", <<"x">>)
    /\ DOMAIN quarantine = {"nperps"}


\* the number of rows of the table whose raw cell in column c is empty
RawNulls(c) == Cardinality({i \in DOMAIN df : RawEmpty(df[i].idx, c)})

\* C7 (as claimed): a column resolution with 85% missing values is present in
\* the dropped-sparse-columns report and absent from the output header.
C7_ResolutionReported ==
    pc = "done" /\ "resolution" \in file.cols /\ Len(df) > 0
        /\ 100 * RawNulls("resolution") = 85 * Len(df)
        => "resolution" \in sparse_cols /\ "resolution" \notin output.cols

\* C7 (amended): resolution is removed by the explicit drop list, so it is
\* absent from the output header and never in the sparse-column report; a
\* column outside the drop list with 85% missing values (gname) is in the
\* report and absent from the output.  Every column the sparsity step
\* removes is in the report, and the report lists exactly the columns that
\* had 80% or more missing values at that step.
C7_SparseReport ==
    /\ []("resolution" \notin sparse_cols
          /\ (output.written => "resolution" \notin output.cols)
          /\ (pc = "done" /\ "gname" \in file.cols /\ Len(df) > 0
                /\ 100 * RawNulls("gname") = 85 * Len(df)
                => "gname" \in sparse_cols /\ "gname" \notin output.cols))
    /\ [][pc = "sparse" =>
            /\ cols \ cols' = sparse_cols'
            /\ cols' \subseteq cols
            /\ \A c \in cols :
                  c \in sparse_cols' <=>
                      Len(df) > 0 /\ 10 * NullCount(df, c) >= 8 * Len(df)]_vars

C7_Witness ==
    /\ pc = "done"
    /\ Len(df) = 20
    /\ RawNulls("resolution") = 17
    /\ RawNulls("gname") = 17
    /\ sparse_cols = {"gname"}
    /\ "resolution" \notin output.cols

\* C8 (as claimed): a quarantine file holds at most one row per distinct
\* unparseable value of its column.
C8_QuarantineDeduplicated ==
    \A col \in DOMAIN quarantine :
        \A i, j \in DOMAIN quarantine[col] :
            quarantine[col][i][col] = quarantine[col][j][col] => i = j

\* C8 (amended): a quarantine file holds every offending row of its column,
\* rows with equal unparseable values included; only the printed preview is
\* deduplicated by the column's value (and cut to ten values).
C8_QuarantineAllRows ==
    /\ [](\A col \in DOMAIN printed_bad :
            /\ col \in DOMAIN quarantine
            /\ \A i, j \in DOMAIN printed_bad[col] :
                  printed_bad[col][i] = printed_bad[col][j] => i = j
            /\ Len(printed_bad[col]) <= PreviewLimit
            /\ Range(printed_bad[col]) \subseteq
                  {quarantine[col][j][col] : j \in DOMAIN quarantine[col]}
            /\ Len(printed_bad[col]) < PreviewLimit =>
                  Range(printed_bad[col]) =
                      {quarantine[col][j][col] : j \in DOMAIN quarantine[col]})
    /\ [][pc = "numeric" =>
            \A col \in DOMAIN quarantine' :
                \A v \in {df[i].c[col] : i \in Offending(df, col)} :
                    Cardinality({j \in DOMAIN quarantine'[col] : quarantine'[col][j][col] = v})
                        = Cardinality({i \in DOMAIN df : df[i].c[col] = v})]_vars

C8_Witness ==
    /\ pc = "done"
    /\ "nkill" \in DOMAIN quarantine
    /\ Len(quarantine["nkill"]) = 2
    /\ quarantine["nkill"][1]["nkill"] = quarantine["nkill"][2]["nkill"]
    /\ Len(printed_bad["nkill"]) = 1

\* the codes of a pair that carry two distinct (non-missing) labels
TwoLabels(rows, code_col, text_col) ==
    {k \in {rows[i].c[code_col] : i \in DOMAIN rows} :
        /\ ~IsNull(k)
        /\ \E i, j \in DOMAIN rows :
              /\ rows[i].c[code_col] = k /\ rows[j].c[code_col] = k
              /\ ~IsNull(rows[i].c[text_col]) /\ ~IsNull(rows[j].c[text_col])
              /\ rows[i].c[text_col] # rows[j].c[text_col]}

\* C9: the consistency check changes neither rows, columns nor values of the
\* table, always hands over to the next step, and reports a code of a pair
\* exactly when both columns of the pair are present and the rows with that
\* code carry more than one distinct label.
C9_AlignmentDiagnosticOnly ==
    [][pc = "align" =>
          /\ df' = df /\ cols' = cols
          /\ pc' = "numeric" /\ err' = err
          /\ \A p \in DOMAIN alignment_pairs :
                LET a == alignment_pairs[p][1]
                    b == alignment_pairs[p][2]
                    reported == {m.code : m \in {x \in mismatch_report' :
                                    x.code_col = a /\ x.text_col = b}}
                IN  IF a \in cols /\ b \in cols
                    THEN reported = TwoLabels(df, a, b)
                    ELSE reported = {}]_vars

C9_Witness ==
    /\ pc = "done"
    /\ \E m \in mismatch_report : m.code_col = "country" /\ m.text_col = "country_txt"
    /\ \E i, j \in DOMAIN file.rows :
          /\ RawIs(i, "country_txt", <<"a">>)
          /\ RawIs(j, "country_txt", <<"b">>)

\* the members the specification names for the placeholder token set
NamedPlaceholders == { <<"u","n","k","n","o","w","n">>, <<"n","/","a">>, <<"n","o","n","e">>, <<>> }

\* the tokens the script maps to missing (lines 14 and 19)
ScriptPlaceholders ==
    { <<"u","n","k","n","o","w","n">>, <<"n","o","t"," ","a","p","p","l","i","c","a","b","l","e">>, <<"u","n","k">>, <<"n","o","n","e">>, <<"n","a","n">>, <<>>, <<"<","n","a",">">> }

\* the columns of the input that are read as text
TextColumns ==
    {c \in file.cols : \E i \in DOMAIN file.rows :
        file.rows[i][c] \notin NaValues /\ ~IsNumericText(file.rows[i][c])}

\* C10 (as claimed): after text normalization no value of a text column
\* equals, lowercased and trimmed, one of "unknown", "n/a", "none", "".
C10_NamedPlaceholdersMissing ==
    pc = "binary" =>
        \A c \in TextColumns : \A i \in DOMAIN df :
            StrStrip(StrLower(file.rows[i][c])) \in NamedPlaceholders
                => IsNull(df[i].c[c])

\* C10 (amended): after text normalization every value of a text column
\* that, lowercased and trimmed, is one of "unknown", "not applicable",
\* "unk", "none", "nan", "" or "<na>" is missing, and every other text value
\* is stored lowercased and trimmed; "n/a" is no member of the set and stays
\* as text unless it was read as missing at load.
C10_ScriptPlaceholdersMissing ==
    pc = "binary" =>
        \A c \in TextColumns : \A i \in DOMAIN df :
            LET x == file.rows[i][c]
                t == StrStrip(StrLower(x))
            IN  IF t \in ScriptPlaceholders \/ x \in NaValues
                THEN IsNull(df[i].c[c])
                ELSE /\ df[i].c[c] = Str(t)
                     /\ \A k \in DOMAIN df[i].c[c].s :
                           df[i].c[c].s[k] \notin Range(UpperChars)
                     /\ ~IsSpace(df[i].c[c].s[1])
                     /\ ~IsSpace(df[i].c[c].s[Len(df[i].c[c].s)])

C10_Witness ==
    /\ pc = "binary"
    /\ \E i, j, k \in DOMAIN df :
          /\ RawIs(i, "city", <<"N","/","a">>) /\ df[i].c["city"] = Str(<<"n","/","a">>)
          /\ RawIs(j, "city", <<"U","n","k","n","o","w","n">>) /\ IsNull(df[j].c["city"])
          /\ RawIs(k, "city", <<" ","P","a","r","i","s"," ">>) /\ df[k].c["city"] = Str(<<"p","a","r","i","s">>)

====
